---- MODULE Spec2Model ----
(***************************************************************************)
(* Binance exchange subclass (freqtrade/exchange/binance.py).              *)
(*                                                                         *)
(* Every operation of the class is one synchronous call; the state kept    *)
(* between calls is the adapter's configuration (_config, _params) and the *)
(* observable trace of the last call: the requests it made to its          *)
(* collaborators (calls), the log events it emitted (log) and the way it   *)
(* ended (result).                                                         *)
(*                                                                         *)
(* Prices and amounts are integers counted in a unit finer than any tick;  *)
(* a product with a ratio is the exact rational <<numerator, denominator>>.*)
(* Python dicts are sets of <<key, value>> pairs with one pair per key.    *)
(***************************************************************************)
EXTENDS Integers, Sequences, FiniteSets, TLC

VARIABLES
    _config,      \* self._config: [dry_run |-> BOOLEAN]
    _params,      \* self._params: the adapter's shared default request parameters
    op,           \* the operation of the last call
    request,      \* the arguments of the last call
    calls,        \* the collaborator requests made during the last call, in order,
                  \* each with the response it got
    log,          \* the log events emitted during the last call, in order
    result        \* how the last call ended: a returned value or a raised exception

vars == <<_config, _params, op, request, calls, log, result>>

-----------------------------------------------------------------------------
(* Bounds of the model *)

MaxPrice == 6

MaxAmount == 1

MaxLimit == 1001
-----------------------------------------------------------------------------
(* Inputs *)

Pairs == {"ETH/BTC", "LTC/BTC"}

\* the base asset of a market
BaseAsset(pair) == IF pair = "ETH/BTC" THEN "ETH" ELSE "LTC"

Wallets == {"SPOT", "ISOLATED_MARGIN"}

\* stoploss_on_exchange_limit_ratio values a caller configures, as <<num, den>>
LimitRatios == {<<1, 2>>, <<1, 1>>}

\* order_types with and without the limit-ratio key
OrderTypesInputs ==
    {{}} \cup {{<<"stoploss_on_exchange_limit_ratio", r>>} : r \in LimitRatios}

ParamsInputs == {{}, {<<"recvWindow", 5000>>}}

-----------------------------------------------------------------------------
(* Python dict helpers *)

DictHas(d, k) == \E p \in d : p[1] = k

\* dict.get(k, default)
DictGet(d, k, default) ==
    IF DictHas(d, k) THEN (CHOOSE p \in d : p[1] = k)[2] ELSE default

\* the contents of a dict after d.update({k: v})
DictUpdated(d, k, v) == {p \in d : p[1] # k} \cup {<<k, v>>}

-----------------------------------------------------------------------------
(* Results *)

None == [type |-> "None"]

Return(v) == [status |-> "return", exc |-> "", cause |-> "", value |-> v]

Raise(e, c) == [status |-> "raise", exc |-> e, cause |-> c, value |-> None]

NoCall == [status |-> "none", exc |-> "", cause |-> "", value |-> None]

-----------------------------------------------------------------------------
(* Precision Normalizer: Exchange.price_to_precision / amount_to_precision *)

\* the exchange's tick size (price increment) per market
TickSize(pair) == IF pair = "ETH/BTC" THEN 2 ELSE 3

\* the exchange's lot size (amount increment) per market
LotSize(pair) == IF pair = "ETH/BTC" THEN 2 ELSE 3

\* the multiple of step nearest to the rational q = <<n, d>>, ties upward
RoundToStep(q, step) == ((2 * q[1] + q[2] * step) \div (2 * q[2] * step)) * step

price_to_precision(pair, price) == RoundToStep(price, TickSize(pair))

amount_to_precision(pair, amount) == RoundToStep(<<amount, 1>>, LotSize(pair))

-----------------------------------------------------------------------------
(* Dry-Run Recorder: Exchange.dry_run_order *)

dry_run_order(pair, ordertype, side, amount, rate) ==
    [type |-> "DryRunOrder", symbol |-> pair, ordertype |-> ordertype,
     side |-> side, amount |-> amount, price |-> rate]

-----------------------------------------------------------------------------
(* Transport Collaborator: the ccxt exchange object self._api *)

\* the exception classes of the exchange library
CcxtErrors ==
    {"BaseError", "ExchangeError", "AuthenticationError", "InsufficientFunds",
     "InvalidOrder", "OrderNotFound", "NetworkError", "DDoSProtection",
     "RequestTimeout"}

\* the direct base class of each exception class
CcxtBase(c) ==
    CASE c \in {"ExchangeError", "NetworkError"} -> "BaseError"
      [] c \in {"AuthenticationError", "InsufficientFunds", "InvalidOrder"} -> "ExchangeError"
      [] c = "OrderNotFound" -> "InvalidOrder"
      [] c \in {"DDoSProtection", "RequestTimeout"} -> "NetworkError"
      [] OTHER -> "Exception"

RECURSIVE IsInstance(_, _)
\* isinstance(e, cls) for an exception e of class c
IsInstance(c, cls) ==
    IF c = cls THEN TRUE
    ELSE IF c \in CcxtErrors THEN IsInstance(CcxtBase(c), cls)
    ELSE FALSE

Accepted(v) == [ok |-> TRUE, err |-> "", value |-> v]

Failed(e) == [ok |-> FALSE, err |-> e, value |-> None]

\* the acknowledgments the exchange can answer an accepted order with
OrderAcks == {[type |-> "LiveOrder", id |-> i] : i \in {"order-a", "order-b"}}

\* what one create_order request can end with
OrderOutcomes == {Accepted(a) : a \in OrderAcks} \cup {Failed(e) : e \in CcxtErrors}

\* what one margin (sapi) request can end with
MarginOutcomes ==
    {Accepted([type |-> "MarginInfo", id |-> "info-a"])}
        \cup {Failed(e) : e \in CcxtErrors}

-----------------------------------------------------------------------------
(* Dict objects: params = self._params.copy(); params.update({...}) *)

\* the dict objects alive during a call, by reference
Heap(shared) == [ref \in {"self._params", "params"} |->
                    IF ref = "self._params" THEN shared ELSE {}]

\* params = self._params: the same object, not a copy
dict_alias(heap, ref) == [heap |-> heap, ref |-> ref]

\* d.copy(): a new object with the contents of the object at ref
dict_copy(heap, ref) ==
    [heap |-> [heap EXCEPT !["params"] = heap[ref]], ref |-> "params"]

\* d.update({k: v}): changes the object at ref in place
dict_update(heap, ref, k, v) ==
    [heap EXCEPT ![ref] = DictUpdated(heap[ref], k, v)]

-----------------------------------------------------------------------------
(* Binance.stoploss *)

\* order_types.get('stoploss_on_exchange_limit_ratio', 0.99)
DefaultLimitRatio == <<99, 100>>

\* the generic clause tried before the specific ones
ExceptClausesGenericFirst ==
    << [catches |-> {"NetworkError", "ExchangeError"}, raises |-> "TemporaryError"],
       [catches |-> {"InsufficientFunds"}, raises |-> "InsufficientFundsError"],
       [catches |-> {"InvalidOrder"}, raises |-> "InvalidOrderException"],
       [catches |-> {"DDoSProtection"}, raises |-> "DDosProtection"],
       [catches |-> {"BaseError"}, raises |-> "OperationalException"] >>

\* the clauses without the final except ccxt.BaseError
ExceptClausesNoFallback ==
    << [catches |-> {"InsufficientFunds"}, raises |-> "InsufficientFundsError"],
       [catches |-> {"InvalidOrder"}, raises |-> "InvalidOrderException"],
       [catches |-> {"DDoSProtection"}, raises |-> "DDosProtection"],
       [catches |-> {"NetworkError", "ExchangeError"}, raises |-> "TemporaryError"] >>

\* the except clauses of stoploss, in the order they are tried
ExceptClauses ==
    << [catches |-> {"InsufficientFunds"}, raises |-> "InsufficientFundsError"],
       [catches |-> {"InvalidOrder"}, raises |-> "InvalidOrderException"],
       [catches |-> {"DDoSProtection"}, raises |-> "DDosProtection"],
       [catches |-> {"NetworkError", "ExchangeError"}, raises |-> "TemporaryError"],
       [catches |-> {"BaseError"}, raises |-> "OperationalException"] >>

\* the first except clause that catches an exception of class e; 0 when none does
MatchingClause(e) ==
    LET hits == {i \in 1..Len(ExceptClauses) :
                    \E c \in ExceptClauses[i].catches : IsInstance(e, c)}
    IN  IF hits = {} THEN 0 ELSE CHOOSE i \in hits : \A j \in hits : i <= j

\* what the try statement of stoploss ends with when create_order raises e
HandleOrderError(e) ==
    IF MatchingClause(e) = 0
    THEN Raise(e, "")
    ELSE Raise(ExceptClauses[MatchingClause(e)].raises, e)

\* stop_price <= rate, for an integer stop_price and a rational rate
PriceLeqRate(stop_price, rate) == stop_price * rate[2] <= rate[1]

\* the stop price checked and sent as it was passed in
StopPriceUnrounded(pair, stop_price) == stop_price

\* stop_price = self.price_to_precision(pair, stop_price)
StopPriceToPrecision(pair, stop_price) == price_to_precision(pair, <<stop_price, 1>>)

\* the dry-run order recorded with the amount normalized, as a live order's is
DryRunRequestNormalized(pair, ordertype, amount, stop_price) ==
    [target |-> "dry_run_order", symbol |-> pair, type |-> ordertype,
     side |-> "sell", amount |-> amount_to_precision(pair, amount),
     price |-> stop_price, params |-> {}]

\* self.dry_run_order(pair, ordertype, "sell", amount, stop_price): the request
\* made to the Dry-Run Recorder
DryRunRequest(pair, ordertype, amount, stop_price) ==
    [target |-> "dry_run_order", symbol |-> pair, type |-> ordertype,
     side |-> "sell", amount |-> amount, price |-> stop_price, params |-> {}]

\* the stop price sent as the order's price, in place of the limit price
CreateOrderRequestAtStop(pair, ordertype, amount, rate, params) ==
    [target |-> "create_order", symbol |-> pair, type |-> ordertype,
     side |-> "sell", amount |-> amount,
     price |-> DictGet(params, "stopPrice", rate), params |-> params]

\* self._api.create_order(symbol=pair, type=ordertype, side='sell',
\*                        amount=amount, price=rate, params=params)
CreateOrderRequest(pair, ordertype, amount, rate, params) ==
    [target |-> "create_order", symbol |-> pair, type |-> ordertype,
     side |-> "sell", amount |-> amount, price |-> rate, params |-> params]

\* a request together with the response it got
Answered(req, response) ==
    [target |-> req.target, symbol |-> req.symbol, type |-> req.type,
     side |-> req.side, amount |-> req.amount, price |-> req.price,
     params |-> req.params, response |-> response]

\* the body of stoploss, given the contents of the heap and what create_order
\* will answer
stoploss(heap, config, pair, amount, stop_price_arg, order_types, outcome) ==
    LET limit_price_pct ==
            DictGet(order_types, "stoploss_on_exchange_limit_ratio", DefaultLimitRatio)
        rate == <<stop_price_arg * limit_price_pct[1], limit_price_pct[2]>>
        ordertype == "stop_loss_limit"
        stop_price == StopPriceToPrecision(pair, stop_price_arg)
    IN  IF PriceLeqRate(stop_price, rate)
        THEN [heap |-> heap, calls |-> <<>>, log |-> <<>>,
              result |-> Raise("OperationalException", "")]
        ELSE IF config.dry_run
        THEN LET req == DryRunRequest(pair, ordertype, amount, stop_price)
                 dry_order == dry_run_order(req.symbol, req.type, req.side,
                                            req.amount, req.price)
             IN  [heap |-> heap,
                  calls |-> << Answered(req, Accepted(dry_order)) >>,
                  log |-> <<>>,
                  result |-> Return(dry_order)]
        ELSE LET copied == dict_copy(heap, "self._params")
                 heap2 == dict_update(copied.heap, copied.ref, "stopPrice", stop_price)
                 amount2 == amount_to_precision(pair, amount)
                 rate2 == price_to_precision(pair, rate)
                 sent == << Answered(CreateOrderRequest(pair, ordertype, amount2,
                                                        rate2, heap2[copied.ref]),
                                     outcome) >>
             IN  IF outcome.ok
                 THEN [heap |-> heap2, calls |-> sent,
                       log |-> << [level |-> "info", pair |-> pair,
                                   stop_price |-> stop_price, rate |-> rate2] >>,
                       result |-> Return(outcome.value)]
                 ELSE [heap |-> heap2, calls |-> sent, log |-> <<>>,
                       result |-> HandleOrderError(outcome.err)]

\* one retry left to the wrapper
RetryOnce == 0 + 1

\* @retrier(retries=0)
StoplossRetries == 0

\* the errors the retry wrapper retries on
RetryableErrors == {"TemporaryError", "DDosProtection"}

RECURSIVE retrier(_, _, _, _, _, _, _, _)
\* the retry wrapper around stoploss: count retries are left, outcomes are the
\* answers create_order will give, attempt by attempt
retrier(count, heap, config, pair, amount, stop_price, order_types, outcomes) ==
    LET r == stoploss(heap, config, pair, amount, stop_price, order_types,
                      Head(outcomes))
    IN  IF r.result.status = "raise" /\ r.result.exc \in RetryableErrors /\ count > 0
        THEN LET again == retrier(count - 1, r.heap, config, pair, amount,
                                  stop_price, order_types, Tail(outcomes))
             IN  [again EXCEPT !.calls = r.calls \o again.calls,
                               !.log = r.log \o again.log]
        ELSE r

\* the exchange answers only the requests that are made: the answers beyond
\* the last create_order request of the call are not drawn
Unasked(outcomes, made) ==
    \A i \in 1..Len(outcomes) :
        i > Len(SelectSeq(made, LAMBDA c : c.target = "create_order"))
            => outcomes[i] = Failed("BaseError")

CallStoploss ==
    \E pair \in Pairs, amount \in 1..MaxAmount, stop_price \in 1..MaxPrice,
       order_types \in OrderTypesInputs,
       outcomes \in [1..(StoplossRetries + 1) -> OrderOutcomes] :
        \E r \in {retrier(StoplossRetries, Heap(_params), _config, pair, amount,
                          stop_price, order_types, outcomes)} :
            /\ Unasked(outcomes, r.calls)
            /\ op' = "stoploss"
            /\ request' = [pair |-> pair, amount |-> amount,
                           stop_price |-> stop_price, order_types |-> order_types]
            /\ _params' = r.heap["self._params"]
            /\ calls' = r.calls
            /\ log' = r.log
            /\ result' = r.result
            /\ UNCHANGED _config

-----------------------------------------------------------------------------
(* Binance.fetch_l2_order_book *)

limit_range == <<5, 10, 20, 50, 100, 500, 1000>>

\* the filter with limit < x
FilterLimitsStrict(limit) == SelectSeq(limit_range, LAMBDA x : limit < x)

\* list(filter(lambda x: limit <= x, limit_range))
FilterLimits(limit) == SelectSeq(limit_range, LAMBDA x : limit <= x)

\* min(xs) of a non-empty list
ListMin(xs) == CHOOSE m \in {xs[i] : i \in 1..Len(xs)} :
                   \A i \in 1..Len(xs) : m <= xs[i]

\* the order books the base implementation can answer with
OrderBooks == {[type |-> "OrderBook", id |-> "book-a"]}

fetch_l2_order_book(pair, limit, book) ==
    IF FilterLimits(limit) = <<>>
    THEN [calls |-> <<>>, result |-> Raise("ValueError", "")]
    ELSE [calls |-> << [target |-> "super.fetch_l2_order_book", symbol |-> pair,
                        limit |-> ListMin(FilterLimits(limit)),
                        response |-> Accepted(book)] >>,
          result |-> Return(book)]

CallFetchL2OrderBook(pairs, limits) ==
    \E pair \in pairs, limit \in limits, book \in OrderBooks :
        LET r == fetch_l2_order_book(pair, limit, book)
        IN  /\ op' = "fetch_l2_order_book"
            /\ request' = [pair |-> pair, limit |-> limit]
            /\ calls' = r.calls
            /\ log' = <<>>
            /\ result' = r.result
            /\ UNCHANGED <<_config, _params>>

-----------------------------------------------------------------------------
(* Margin / account pass-through operations *)

\* a margin request whose failure is raised to the caller
MarginRequestRaising(endpoint, args, outcome) ==
    LET sent == << [target |-> endpoint, args |-> args, response |-> outcome] >>
    IN  IF outcome.ok
        THEN [calls |-> sent, log |-> <<>>, result |-> Return(outcome.value)]
        ELSE [calls |-> sent,
              log |-> << [level |-> "warning", reason |-> outcome.err] >>,
              result |-> Raise("OperationalException", outcome.err)]

\* try: return self._api.<endpoint>(args)
\* except ccxt.BaseError as e: logger.warning(...)
MarginRequest(endpoint, args, outcome) ==
    LET sent == << [target |-> endpoint, args |-> args, response |-> outcome] >>
    IN  IF outcome.ok
        THEN [calls |-> sent, log |-> <<>>, result |-> Return(outcome.value)]
        ELSE IF IsInstance(outcome.err, "BaseError")
        THEN [calls |-> sent,
              log |-> << [level |-> "warning", reason |-> outcome.err] >>,
              result |-> Return(None)]
        ELSE [calls |-> sent, log |-> <<>>, result |-> Raise(outcome.err, "")]

get_isolated_margin_account(outcome) ==
    MarginRequest("sapi_get_margin_isolated_account", {}, outcome)

create_isolated_margin_account(base, quote, outcome) ==
    MarginRequest("sapi_post_margin_isolated_create",
                  {<<"base", base>>, <<"quote", quote>>}, outcome)

isolated_margin_transfer(asset, symbol, transFrom, transTo, amount, outcome) ==
    MarginRequest("sapi_post_margin_isolated_transfer",
                  {<<"asset", asset>>, <<"symbol", symbol>>,
                   <<"transFrom", transFrom>>, <<"transTo", transTo>>,
                   <<"amount", ToString(amount)>>}, outcome)

query_max_borrow(asset, isolatedSymbol, outcome) ==
    MarginRequest("sapi_get_margin_maxborrowable",
                  {<<"asset", asset>>, <<"isolatedSymbol", isolatedSymbol>>}, outcome)

CallGetIsolatedMarginAccount ==
    \E outcome \in MarginOutcomes :
        LET r == get_isolated_margin_account(outcome)
        IN  /\ op' = "get_isolated_margin_account"
            /\ request' = [pair |-> ""]
            /\ calls' = r.calls
            /\ log' = r.log
            /\ result' = r.result
            /\ UNCHANGED <<_config, _params>>

CallCreateIsolatedMarginAccount ==
    \E pair \in Pairs, outcome \in MarginOutcomes :
        LET r == create_isolated_margin_account(BaseAsset(pair), "BTC", outcome)
        IN  /\ op' = "create_isolated_margin_account"
            /\ request' = [base |-> BaseAsset(pair), quote |-> "BTC"]
            /\ calls' = r.calls
            /\ log' = r.log
            /\ result' = r.result
            /\ UNCHANGED <<_config, _params>>

CallIsolatedMarginTransfer ==
    \E symbol \in Pairs, transFrom \in Wallets, amount \in 1..MaxAmount,
       outcome \in MarginOutcomes :
        \E transTo \in Wallets \ {transFrom} :
            LET r == isolated_margin_transfer(BaseAsset(symbol), symbol, transFrom,
                                              transTo, amount, outcome)
            IN  /\ op' = "isolated_margin_transfer"
                /\ request' = [asset |-> BaseAsset(symbol), symbol |-> symbol,
                               transFrom |-> transFrom, transTo |-> transTo,
                               amount |-> amount]
                /\ calls' = r.calls
                /\ log' = r.log
                /\ result' = r.result
                /\ UNCHANGED <<_config, _params>>

CallQueryMaxBorrow ==
    \E isolatedSymbol \in Pairs, outcome \in MarginOutcomes :
        LET r == query_max_borrow(BaseAsset(isolatedSymbol), isolatedSymbol, outcome)
        IN  /\ op' = "query_max_borrow"
            /\ request' = [asset |-> BaseAsset(isolatedSymbol),
                           isolatedSymbol |-> isolatedSymbol]
            /\ calls' = r.calls
            /\ log' = r.log
            /\ result' = r.result
            /\ UNCHANGED <<_config, _params>>

-----------------------------------------------------------------------------

Init ==
    /\ _config \in [dry_run : BOOLEAN]
    /\ _params \in ParamsInputs
    /\ op = "none"
    /\ request = [pair |-> ""]
    /\ calls = <<>>
    /\ log = <<>>
    /\ result = NoCall

\* the depth limits of the calls made under Spec; 100 is the default limit
SampleLimits == {1, 100, MaxLimit}

Next ==
    \/ CallStoploss
    \/ CallFetchL2OrderBook(Pairs, SampleLimits)
    \/ CallGetIsolatedMarginAccount
    \/ CallCreateIsolatedMarginAccount
    \/ CallIsolatedMarginTransfer
    \/ CallQueryMaxBorrow

Spec == Init /\ [][Next]_vars

\* fetch_l2_order_book alone, on every depth limit up to MaxLimit
InitOrderBook ==
    /\ Init
    /\ _config.dry_run = FALSE
    /\ _params = {}

NextOrderBook == CallFetchL2OrderBook(Pairs, 0..MaxLimit)

SpecOrderBook == InitOrderBook /\ [][NextOrderBook]_vars

-----------------------------------------------------------------------------
(* Properties of the last call *)

\* the requests of the last call that went to the Transport Collaborator
CreateOrders == SelectSeq(calls, LAMBDA c : c.target = "create_order")

\* the requests of the last call that went to the Dry-Run Recorder
DryRunOrders == SelectSeq(calls, LAMBDA c : c.target = "dry_run_order")

\* the limit ratio the last stoploss call was made with, as <<num, den>>
ReqRatio ==
    DictGet(request.order_types, "stoploss_on_exchange_limit_ratio", DefaultLimitRatio)

\* the precision-normalized stop price of the last stoploss call
ReqNormalizedStop == price_to_precision(request.pair, <<request.stop_price, 1>>)

\* normalizedStopPrice <= stopPrice * limitRatio in the last stoploss call
ReqFailsValidation ==
    ReqNormalizedStop * ReqRatio[2] <= request.stop_price * ReqRatio[1]

\* the last call ended with the validation error of stoploss
EndedWithValidationError ==
    /\ result.status = "raise"
    /\ result.exc = "OperationalException"
    /\ result.cause = ""

\* C1: a stop-loss placement with stopPrice > 0 and limitRatio in (0,1) whose
\* normalized stop price is at most stopPrice * limitRatio ends with the
\* validation error, in dry-run and in live mode, and calls neither
\* create_order nor the Dry-Run Recorder.
C1_ValidationBeforeAnyCall ==
    ( /\ op = "stoploss"
      /\ request.stop_price > 0
      /\ 0 < ReqRatio[1] /\ ReqRatio[1] < ReqRatio[2]
      /\ ReqFailsValidation )
        => /\ EndedWithValidationError
           /\ CreateOrders = <<>>
           /\ DryRunOrders = <<>>

C1_Witness ==
    /\ op = "stoploss"
    /\ _config.dry_run
    /\ request.stop_price > 0
    /\ 0 < ReqRatio[1] /\ ReqRatio[1] < ReqRatio[2]
    /\ ReqFailsValidation
    /\ EndedWithValidationError
    /\ calls = <<>>

\* the last call returned a dry-run order with the amount as requested
ReturnedDryRunOrder ==
    /\ result.status = "return"
    /\ result.value.type = "DryRunOrder"
    /\ result.value.amount = request.amount
    /\ result.value.price = ReqNormalizedStop
    /\ result.value.side = "sell"

\* C2 (as stated): in dry-run mode a stop-loss placement never calls the
\* Transport Collaborator and always returns a DryRunOrder with the amount of
\* the request unmodified, the normalized stop price and side 'sell'.
C2_AlwaysReturnsDryRunOrder ==
    (op = "stoploss" /\ _config.dry_run)
        => /\ CreateOrders = <<>>
           /\ ReturnedDryRunOrder

\* C2 (amended): in dry-run mode a stop-loss placement never calls the
\* Transport Collaborator; when the request passes validation it asks the
\* Dry-Run Recorder once, with the amount of the request unmodified, the
\* normalized stop price and side 'sell', and returns the recorder's order;
\* when the request fails validation it ends with the validation error.
C2_DryRunOrderWhenValid ==
    (op = "stoploss" /\ _config.dry_run)
        => /\ CreateOrders = <<>>
           /\ ~ReqFailsValidation
                => /\ ReturnedDryRunOrder
                   /\ Len(calls) = 1
                   /\ calls[1].target = "dry_run_order"
                   /\ calls[1].amount = request.amount
                   /\ calls[1].price = ReqNormalizedStop
                   /\ calls[1].side = "sell"
                   /\ result.value = calls[1].response.value
           /\ ReqFailsValidation => EndedWithValidationError /\ calls = <<>>

\* a dry-run order whose amount a normalization would have changed
C2_Witness ==
    /\ op = "stoploss"
    /\ _config.dry_run
    /\ ReturnedDryRunOrder
    /\ amount_to_precision(request.pair, request.amount) # request.amount
    /\ ReqNormalizedStop # request.stop_price

\* C3: a stop-loss placement issues at most one create_order request, whatever
\* the request ends with; a request that fails is not sent again.
C3_AtMostOneCreateOrder ==
    op = "stoploss"
        => /\ Len(CreateOrders) <= 1
           /\ \A i \in 1..Len(CreateOrders) :
                  ~CreateOrders[i].response.ok => Len(CreateOrders) = 1

\* a rate-limited request, which the retry wrapper would otherwise retry
C3_Witness ==
    /\ op = "stoploss"
    /\ Len(CreateOrders) = 1
    /\ ~CreateOrders[1].response.ok
    /\ CreateOrders[1].response.err = "DDoSProtection"
    /\ result.exc \in RetryableErrors

\* the error kind the classification table gives a transport failure
ExpectedKind(e) ==
    CASE e = "InsufficientFunds" -> "InsufficientFundsError"
      [] e \in {"InvalidOrder", "OrderNotFound"} -> "InvalidOrderException"
      [] e = "DDoSProtection" -> "DDosProtection"
      [] e \in {"NetworkError", "RequestTimeout", "ExchangeError",
                "AuthenticationError"} -> "TemporaryError"
      [] OTHER -> "OperationalException"

\* the create_order request of the last call failed
OrderFailed ==
    /\ op = "stoploss"
    /\ Len(CreateOrders) >= 1
    /\ ~CreateOrders[Len(CreateOrders)].response.ok

\* the transport error the last create_order request failed with
OrderError == CreateOrders[Len(CreateOrders)].response.err

\* C4: a failed order placement ends with the error kind of the most specific
\* matching condition: insufficient funds, invalid order, rate limit, then
\* network failure or generic exchange error (Temporary), then anything else
\* of the exchange library (Operational).
C4_MostSpecificKind ==
    OrderFailed
        => /\ result.status = "raise"
           /\ result.exc = ExpectedKind(OrderError)
           /\ (IsInstance(OrderError, "InsufficientFunds")
                  \/ IsInstance(OrderError, "InvalidOrder")
                  \/ IsInstance(OrderError, "DDoSProtection"))
                => result.exc # "TemporaryError"

\* an invalid-order subclass, which is also a generic exchange error
C4_Witness ==
    /\ OrderFailed
    /\ OrderError = "OrderNotFound"
    /\ IsInstance(OrderError, "ExchangeError")
    /\ result.exc = "InvalidOrderException"

ErrorKinds ==
    {"InsufficientFundsError", "InvalidOrderException", "DDosProtection",
     "TemporaryError", "OperationalException"}

\* C5: whenever create_order fails, the stop-loss placement ends with an error
\* of one of the five kinds, raised from the transport failure: the failure is
\* neither swallowed nor let through unclassified.
C5_FailureAlwaysClassified ==
    OrderFailed
        => /\ result.status = "raise"
           /\ result.exc \in ErrorKinds
           /\ result.cause = OrderError

\* a bare exchange-library error, which only the last clause catches
C5_Witness ==
    /\ OrderFailed
    /\ OrderError = "BaseError"
    /\ result.exc = "OperationalException"
    /\ result.cause = "BaseError"

\* C6: in every create_order request the limit price sent is strictly below
\* the trigger price sent.
C6_LimitBelowTrigger ==
    \A i \in 1..Len(CreateOrders) :
        CreateOrders[i].price < DictGet(CreateOrders[i].params, "stopPrice", 0)

\* C7: in live mode a request that passes validation is submitted once, as a
\* sell-side stop_loss_limit order for the pair with the normalized amount,
\* the normalized stopPrice * limitRatio as price and the normalized stop
\* price as stopPrice parameter; an accepted request's acknowledgment is
\* returned unchanged.
C7_LiveRequestShape ==
    (op = "stoploss" /\ ~_config.dry_run /\ ~ReqFailsValidation)
        => /\ Len(calls) = 1
           /\ calls[1].target = "create_order"
           /\ calls[1].symbol = request.pair
           /\ calls[1].type = "stop_loss_limit"
           /\ calls[1].side = "sell"
           /\ calls[1].amount = amount_to_precision(request.pair, request.amount)
           /\ calls[1].price =
                  price_to_precision(request.pair,
                      <<request.stop_price * ReqRatio[1], ReqRatio[2]>>)
           /\ DictHas(calls[1].params, "stopPrice")
           /\ DictGet(calls[1].params, "stopPrice", 0) = ReqNormalizedStop
           /\ calls[1].response.ok => result = Return(calls[1].response.value)

\* an accepted order whose amount, price and stop price normalization changed
C7_Witness ==
    /\ op = "stoploss"
    /\ ~_config.dry_run
    /\ Len(calls) = 1
    /\ calls[1].response.ok
    /\ result.status = "return"
    /\ result.value.type = "LiveOrder"
    /\ calls[1].amount # request.amount
    /\ calls[1].price < DictGet(calls[1].params, "stopPrice", 0)
    /\ DictGet(calls[1].params, "stopPrice", 0) # request.stop_price

MarginOps ==
    {"get_isolated_margin_account", "create_isolated_margin_account",
     "isolated_margin_transfer", "query_max_borrow"}

\* C8: each margin operation issues exactly one transport request; when the
\* request fails with an exchange-library error the operation returns nothing,
\* logs exactly one warning and raises nothing.
C8_MarginFailureSwallowed ==
    op \in MarginOps
        => /\ Len(calls) = 1
           /\ ~calls[1].response.ok
                => /\ result = Return(None)
                   /\ Len(log) = 1
                   /\ log[1].level = "warning"

C8_Witness ==
    /\ op = "query_max_borrow"
    /\ Len(calls) = 1
    /\ ~calls[1].response.ok
    /\ result = Return(None)
    /\ Len(log) = 1

\* C9: no stop-loss placement changes the shared default parameters: the
\* trigger price goes into the parameters of its own request only, and the
\* parameters of a request are the defaults plus that call's trigger price.
C9_ParamsUnchanged ==
    [][ /\ _params' = _params
        /\ ~DictHas(_params', "stopPrice")
        /\ op' = "stoploss"
            => \A i \in 1..Len(calls') :
                   calls'[i].target = "create_order"
                       => calls'[i].params =
                              DictUpdated(_params, "stopPrice",
                                  price_to_precision(request'.pair,
                                                     <<request'.stop_price, 1>>))
      ]_vars

\* a live request carried its trigger price and the defaults did not keep it
C9_Witness ==
    /\ op = "stoploss"
    /\ Len(CreateOrders) = 1
    /\ DictHas(CreateOrders[1].params, "stopPrice")
    /\ DictHas(CreateOrders[1].params, "recvWindow")
    /\ ~DictHas(_params, "stopPrice")

LimitSet == {5, 10, 20, 50, 100, 500, 1000}

\* C10: fetch_l2_order_book forwards the smallest member of
\* {5, 10, 20, 50, 100, 500, 1000} that is at least the requested limit, a
\* member unchanged; for a requested limit above 1000 it fails and forwards
\* nothing.
C10_LimitSnapsUp ==
    op = "fetch_l2_order_book"
        => IF request.limit <= 1000
           THEN /\ Len(calls) = 1
                /\ calls[1].target = "super.fetch_l2_order_book"
                /\ calls[1].symbol = request.pair
                /\ calls[1].limit \in LimitSet
                /\ calls[1].limit >= request.limit
                /\ \A m \in LimitSet : m >= request.limit => calls[1].limit <= m
                /\ request.limit \in LimitSet => calls[1].limit = request.limit
                /\ result.status = "return"
           ELSE /\ calls = <<>>
                /\ result.status = "raise"

C10_Witness ==
    /\ op = "fetch_l2_order_book"
    /\ request.limit = 500
    /\ Len(calls) = 1
    /\ calls[1].limit = 500

\* a requested limit no member covers
C10_WitnessAbove ==
    /\ op = "fetch_l2_order_book"
    /\ request.limit > 1000
    /\ calls = <<>>

====
